---- MODULE Spec2Model ----
(***************************************************************************)
(* Model of the HotstarScalingSimulation component (src/app/page.tsx):     *)
(* the React state of the component, the interval and timeout callbacks    *)
(* it schedules, the per-tick metric generator and the four control        *)
(* handlers.                                                               *)
(*                                                                         *)
(* Numbers.  `requests` is a JavaScript double (currentLoad plus           *)
(* Math.random() * 50000).  It is kept here in fixed point, in units of    *)
(* 1/Resolution of a request, so that the Math.floor calls of the source   *)
(* have something to cut.  hitRate is kept in hundredths of a percent.     *)
(* All quotients are computed exactly (real arithmetic); products are      *)
(* split so that every intermediate value fits 32 bits.                     *)
(*                                                                         *)
(* Time.  The 1000 ms interval and the 15000 ms timeout are not measured:  *)
(* an armed interval may fire at any moment and a pending timeout may fire *)
(* at any moment, timeouts in the order they were scheduled (they all have *)
(* the same delay).  A state update, the re-render it causes and the       *)
(* effect of that render are one step: no timer callback runs between a    *)
(* commit and the effect that follows it.                                  *)
(*                                                                         *)
(* History.  tickNo, spikeNo, quiet, lastOp and wasRunning record what has *)
(* happened; the component does not read them.  The time stamp of a sample *)
(* or log entry (lines 65-70) is kept as tickNo, the ordinal of its tick.  *)
(***************************************************************************)
EXTENDS Integers, Sequences, FiniteSets

VARIABLES
    isRunning,      \* useState(false), line 56
    currentLoad,    \* useState(150000), line 57
    metrics,        \* useState<MetricData[]>([]), line 58
    logs,           \* useState<LogEntry[]>([]), line 59
    pods,           \* useState(50), line 60
    cacheHitRate,   \* useState(92), line 61
    intervalRef,    \* useRef, line 62: TRUE when it holds the handle of a live interval
    intervals,      \* live setInterval timers: the state each one's generateMetrics closed over
    timeouts,       \* pending setTimeout callbacks of simulateTrafficSpike, oldest first
    tickNo,         \* history: ticks since the session started or was last reset
    spikeNo,        \* history: calls of simulateTrafficSpike so far
    quiet,          \* history: no control handler has run since the last simulateTrafficSpike
    lastOp,         \* history: the handler or callback that ran last
    wasRunning      \* history: isRunning when it was called

vars == <<isRunning, currentLoad, metrics, logs, pods, cacheHitRate,
          intervalRef, intervals, timeouts, tickNo, spikeNo, quiet,
          lastOp, wasRunning>>

----------------------------------------------------------------------------
(* Bounds of the model *)

\* requests is measured in units of 1/Resolution
Resolution == 2

\* ticks explored after a reset, with every random draw tried at each
MaxTicks == 4

\* ticks explored after a reset along the fixed schedule of draws
MaxHistTicks == 24

\* calls of simulateTrafficSpike explored in one session
MaxSpikes == 2

\* calls of simulateTrafficSpike explored in one session of the long runs
MaxHistSpikes == 1

----------------------------------------------------------------------------
(* Constants of the program *)

BaseLoad == 150000
SpikeLoad == 3000000
PostSpikeLoad == 800000
InitialPods == 50
InitialCacheHitRate == 92
JitterRange == 50000
MinHitRate == 88
PodCapacity == 3000
MinPods == 50
MaxPods == 2500
MaxCpu == 95
BaseResponseTime == 45
LoadFactorUnit == 200000
MetricsKept == 19
LogsKept == 49
CpuWarn == 80
HitRateWarn == 90
ResponseTimeError == 150
HighTraffic == 500000
PeakTraffic == 2000000

----------------------------------------------------------------------------
(* Arithmetic helpers *)

Min(a, b) == IF a <= b THEN a ELSE b
Max(a, b) == IF a >= b THEN a ELSE b

\* floor(a * b / c) for a, b >= 0 and c a positive multiple of 1000
MulDivFloor(a, b, c) ==
    ((a \div 1000) * b + ((a % 1000) * b) \div 1000) \div (c \div 1000)

\* a * b is a multiple of c (same domain)
MulDivExact(a, b, c) ==
    /\ ((a % 1000) * b) % 1000 = 0
    /\ ((a \div 1000) * b + ((a % 1000) * b) \div 1000) % (c \div 1000) = 0

\* prev.slice(-k): the last k elements
SliceLast(s, k) ==
    IF Len(s) <= k THEN s ELSE SubSeq(s, Len(s) - k + 1, Len(s))

\* prev.slice(0, k): the first k elements
SliceFirst(s, k) ==
    IF Len(s) <= k THEN s ELSE SubSeq(s, 1, k)

----------------------------------------------------------------------------
(* generateMetrics, lines 64-172.  Its inputs are the state the callback   *)
(* closed over (load, p, hit), the random draw j (in units of 1/Resolution *)
(* of a request, 0 <= j < JitterRange * Resolution) and the time stamp t,  *)
(* which is kept as the ordinal of the tick.                               *)

\* line 74: requests = baseRequests + Math.random() * 50000, in fixed point
Requests(load, j) == load * Resolution + j

\* line 77: hitRate = Math.max(88, cacheHitRate - (currentLoad / 1000000) * 5),
\* in hundredths of a percent
HitRate(load, hit) == Max(MinHitRate * 100, hit * 100 - (load * 5) \div 10000)

\* line 78: cacheHits = Math.floor(requests * (hitRate / 100))
CacheHits(req, hr) == MulDivFloor(req, hr, 10000 * Resolution)

\* variant of CacheMisses: Math.ceil in place of Math.floor
CacheMissesCeil(req, hits) == (req - hits * Resolution + Resolution - 1) \div Resolution

\* line 79: cacheMisses = Math.floor(requests - cacheHits)
CacheMisses(req, hits) == (req - hits * Resolution) \div Resolution

\* line 82: targetPods = Math.ceil(requests / 3000)
TargetPods(req) ==
    (req + PodCapacity * Resolution - 1) \div (PodCapacity * Resolution)

\* line 83: newPods = Math.min(Math.max(50, targetPods), 2500)
NewPods(req) == Min(Max(MinPods, TargetPods(req)), MaxPods)

\* variant of CpuUsage: the factor 100 left out (a ratio, not a percentage)
CpuUsageNoPercent(req, np) ==
    LET den == np * PodCapacity * Resolution
    IN  [num |-> Min(MaxCpu * den, req), den |-> den]

\* variant of CpuUsage: the Math.min(95, ...) cap left out
CpuUsageUncapped(req, np) ==
    [num |-> req * 100, den |-> np * PodCapacity * Resolution]

\* line 87: cpuUsage = Math.min(95, (requests / (newPods * 3000)) * 100),
\* as the fraction num / den
CpuUsage(req, np) ==
    LET den == np * PodCapacity * Resolution
    IN  [num |-> Min(MaxCpu * den, req * 100), den |-> den]

CpuFloor(cpu) == cpu.num \div cpu.den
CpuAbove(cpu, t) == cpu.num > t * cpu.den

\* lines 90-93: responseTime = 45 * Math.max(1, requests / 200000) * (2.5 - hitRate / 100),
\* as its floor and whether it is a whole number
ResponseTime(req, hr) ==
    LET k == (BaseResponseTime * (25000 - hr)) \div 5
        c == LoadFactorUnit * Resolution * 2000
    IN  IF req <= LoadFactorUnit * Resolution
        THEN [floor |-> k \div 2000, whole |-> k % 2000 = 0]
        ELSE [floor |-> MulDivFloor(req, k, c), whole |-> MulDivExact(req, k, c)]

ResponseTimeAbove(rt, t) == rt.floor > t \/ (rt.floor = t /\ ~rt.whole)

\* line 97: activeUsers = Math.floor(requests / 3.5)
ActiveUsers(req) == (req * 10) \div (35 * Resolution)

\* lines 99-108: newMetric
NewMetric(load, hit, j, t) ==
    LET req  == Requests(load, j)
        hr   == HitRate(load, hit)
        hits == CacheHits(req, hr)
        np   == NewPods(req)
    IN  [ timestamp    |-> t,
          requests     |-> req \div Resolution,
          cacheHits    |-> hits,
          cacheMisses  |-> CacheMisses(req, hits),
          pods         |-> np,
          cpuUsage     |-> CpuFloor(CpuUsage(req, np)),
          responseTime |-> ResponseTime(req, hr).floor,
          activeUsers  |-> ActiveUsers(req) ]

\* a LogEntry; the message is its template and the numbers interpolated into it
LogEntry(t, level, component, text, a, b) ==
    [ timestamp |-> t, level |-> level, component |-> component,
      message |-> [text |-> text, a |-> a, b |-> b] ]

\* lines 115-122
ScalingLog(np, p, t) ==
    IF np # p
    THEN << LogEntry(t, IF np > p THEN "INFO" ELSE "WARN", "K8S",
                     IF np > p THEN "Scaling up" ELSE "Scaling down", np, p) >>
    ELSE << >>

\* lines 124-131
CpuLog(cpu, t) ==
    IF CpuAbove(cpu, CpuWarn)
    THEN << LogEntry(t, "WARN", "K8S", "High CPU usage", CpuFloor(cpu), 0) >>
    ELSE << >>

\* lines 133-140
CacheLog(hr, t) ==
    IF hr < HitRateWarn * 100
    THEN << LogEntry(t, "WARN", "CACHE", "Cache hit rate dropped", hr \div 100, 0) >>
    ELSE << >>

\* lines 142-149
ResponseLog(rt, t) ==
    IF ResponseTimeAbove(rt, ResponseTimeError)
    THEN << LogEntry(t, "ERROR", "API", "High response time", rt.floor, 0) >>
    ELSE << >>

\* lines 151-158
TrafficLog(req, t) ==
    IF req > HighTraffic * Resolution
    THEN << LogEntry(t, "INFO", "LB", "High traffic detected",
                     req \div (1000 * Resolution), 0) >>
    ELSE << >>

\* lines 160-167
PeakLog(req, t) ==
    IF req > PeakTraffic * Resolution
    THEN << LogEntry(t, "CRITICAL", "INFRA", "PEAK IPL TRAFFIC",
                     req \div (1000000 * Resolution), ActiveUsers(req) \div 10000000) >>
    ELSE << >>

\* lines 113-167: newLogs, in the order of the push calls
NewLogs(load, p, hit, j, t) ==
    LET req == Requests(load, j)
        hr  == HitRate(load, hit)
        np  == NewPods(req)
    IN  ScalingLog(np, p, t) \o CpuLog(CpuUsage(req, np), t) \o CacheLog(hr, t)
          \o ResponseLog(ResponseTime(req, hr), t) \o TrafficLog(req, t)
          \o PeakLog(req, t)

\* variant of AppendMetric: prev.slice(-20)
AppendMetricSlice20(prev, m) == Append(SliceLast(prev, MetricsKept + 1), m)

\* line 110: setMetrics((prev) => [...prev.slice(-19), newMetric])
AppendMetric(prev, m) == Append(SliceLast(prev, MetricsKept), m)

\* variant of PrependLogs: the new entries put after the old ones
PrependLogsAfter(prev, new) ==
    IF Len(new) > 0 THEN SliceFirst(prev, LogsKept) \o new ELSE prev

\* lines 169-171: if (newLogs.length > 0) setLogs((prev) => [...newLogs, ...prev.slice(0, 49)])
PrependLogs(prev, new) ==
    IF Len(new) > 0 THEN new \o SliceFirst(prev, LogsKept) ELSE prev

----------------------------------------------------------------------------
(* The component's state and its scheduled callbacks *)

\* what a generateMetrics created by a render reads from that render (lines 73, 77, 115)
Closure(load, p, hit) == [currentLoad |-> load, pods |-> p, cacheHitRate |-> hit]

\* variant of useEffect: no cleanup function returned (lines 183-187 left out)
useEffectNoCleanup(run, load, p, hit) ==
    IF <<run, load, p, hit>> = <<isRunning, currentLoad, pods, cacheHitRate>>
    THEN [ref |-> intervalRef, live |-> intervals]
    ELSE IF run
         THEN [ref |-> TRUE, live |-> Append(intervals, Closure(load, p, hit))]
         ELSE [ref |-> FALSE,
               live |-> IF intervalRef
                        THEN SubSeq(intervals, 1, Len(intervals) - 1)
                        ELSE intervals]

\* variant of useEffect: the dependency array is [isRunning] alone
useEffectRunningDepOnly(run, load, p, hit) ==
    IF run = isRunning
    THEN [ref |-> intervalRef, live |-> intervals]
    ELSE LET cleaned == IF intervalRef
                        THEN SubSeq(intervals, 1, Len(intervals) - 1)
                        ELSE intervals
         IN  IF run
             THEN [ref |-> TRUE, live |-> Append(cleaned, Closure(load, p, hit))]
             ELSE [ref |-> FALSE, live |-> cleaned]

\* variant of useEffect: the dependency array lacks currentLoad
useEffectNoLoadDep(run, load, p, hit) ==
    IF <<run, p, hit>> = <<isRunning, pods, cacheHitRate>>
    THEN [ref |-> intervalRef, live |-> intervals]
    ELSE LET cleaned == IF intervalRef
                        THEN SubSeq(intervals, 1, Len(intervals) - 1)
                        ELSE intervals
         IN  IF run
             THEN [ref |-> TRUE, live |-> Append(cleaned, Closure(load, p, hit))]
             ELSE [ref |-> FALSE, live |-> cleaned]

\* lines 174-188: the effect after a render with the state (run, load, p, hit).
\* It runs only when a dependency differs from the previous render's (line 188):
\* first the previous run's cleanup (lines 183-187), then the body (lines 175-181).
\* The handle in intervalRef is always that of the interval created last.
useEffect(run, load, p, hit) ==
    IF <<run, load, p, hit>> = <<isRunning, currentLoad, pods, cacheHitRate>>
    THEN [ref |-> intervalRef, live |-> intervals]
    ELSE LET cleaned == IF intervalRef
                        THEN SubSeq(intervals, 1, Len(intervals) - 1)
                        ELSE intervals
         IN  IF run
             THEN [ref |-> TRUE, live |-> Append(cleaned, Closure(load, p, hit))]
             ELSE [ref |-> FALSE, live |-> cleaned]

\* a state update to (run, load, p) made by op, the render it causes and that
\* render's effect
Render(op, run, load, p) ==
    /\ lastOp' = op
    /\ wasRunning' = isRunning
    /\ isRunning' = run
    /\ currentLoad' = load
    /\ pods' = p
    /\ cacheHitRate' = cacheHitRate
    /\ LET e == useEffect(run, load, p, cacheHitRate)
       IN  /\ intervalRef' = e.ref
           /\ intervals' = e.live

\* lines 56-62, and the effect of the first render (isRunning false, no handle yet)
Init ==
    /\ isRunning = FALSE
    /\ currentLoad = BaseLoad
    /\ metrics = << >>
    /\ logs = << >>
    /\ pods = InitialPods
    /\ cacheHitRate = InitialCacheHitRate
    /\ intervalRef = FALSE
    /\ intervals = << >>
    /\ timeouts = << >>
    /\ tickNo = 0
    /\ spikeNo = 0
    /\ quiet = FALSE
    /\ lastOp = "none"
    /\ wasRunning = FALSE

\* the random draws tried at every tick: 0, half a request, and the largest
Draws == {0, 1, JitterRange * Resolution - 1}

\* the draw of the n-th tick along the fixed schedule
ScheduledDraw(n) ==
    IF n % 3 = 0 THEN 0
    ELSE IF n % 3 = 1 THEN JitterRange * Resolution - 1
    ELSE 1

\* variant of generateMetrics: setPods(newPods) (line 84) left out
generateMetricsNoSetPods(i, j) ==
    LET c == intervals[i]
        t == tickNo + 1
    IN  /\ metrics' = AppendMetric(metrics, NewMetric(c.currentLoad, c.cacheHitRate, j, t))
        /\ logs' = PrependLogs(logs, NewLogs(c.currentLoad, c.pods, c.cacheHitRate, j, t))
        /\ Render("tick", isRunning, currentLoad, pods)
        /\ tickNo' = t
        /\ UNCHANGED <<timeouts, spikeNo, quiet>>

\* lines 64-172 run by the live interval i with the draw j
generateMetrics(i, j) ==
    LET c  == intervals[i]
        t  == tickNo + 1
        np == NewPods(Requests(c.currentLoad, j))
    IN  /\ metrics' = AppendMetric(metrics, NewMetric(c.currentLoad, c.cacheHitRate, j, t))
        /\ logs' = PrependLogs(logs, NewLogs(c.currentLoad, c.pods, c.cacheHitRate, j, t))
        /\ Render("tick", isRunning, currentLoad, np)
        /\ tickNo' = t
        /\ UNCHANGED <<timeouts, spikeNo, quiet>>

\* line 176: a live interval fires
Tick ==
    /\ tickNo < MaxTicks
    /\ \E i \in 1..Len(intervals) : \E j \in Draws : generateMetrics(i, j)

\* the same, along the fixed schedule of draws
ScheduledTick ==
    /\ tickNo < MaxHistTicks
    /\ \E i \in 1..Len(intervals) : generateMetrics(i, ScheduledDraw(tickNo))

\* variant of startSimulation: the handler arms the interval itself
startSimulationArms ==
    /\ isRunning' = TRUE
    /\ intervalRef' = TRUE
    /\ intervals' = Append(intervals, Closure(currentLoad, pods, cacheHitRate))
    /\ lastOp' = "start"
    /\ wasRunning' = isRunning
    /\ quiet' = FALSE
    /\ UNCHANGED <<currentLoad, pods, cacheHitRate, metrics, logs, timeouts, tickNo, spikeNo>>

\* line 190
startSimulation ==
    /\ Render("start", TRUE, currentLoad, pods)
    /\ quiet' = FALSE
    /\ UNCHANGED <<metrics, logs, timeouts, tickNo, spikeNo>>

\* line 191
stopSimulation ==
    /\ Render("stop", FALSE, currentLoad, pods)
    /\ quiet' = FALSE
    /\ UNCHANGED <<metrics, logs, timeouts, tickNo, spikeNo>>

\* variant of resetSimulation: setPods(50) left out
resetSimulationKeepsPods ==
    /\ Render("reset", FALSE, BaseLoad, pods)
    /\ metrics' = << >>
    /\ logs' = << >>
    /\ tickNo' = 0
    /\ quiet' = FALSE
    /\ UNCHANGED <<timeouts, spikeNo>>

\* variant of resetSimulation: the pending timeouts are cleared as well
resetSimulationClearsTimeouts ==
    /\ Render("reset", FALSE, BaseLoad, InitialPods)
    /\ metrics' = << >>
    /\ logs' = << >>
    /\ tickNo' = 0
    /\ quiet' = FALSE
    /\ timeouts' = << >>
    /\ UNCHANGED spikeNo

\* lines 192-198
resetSimulation ==
    /\ Render("reset", FALSE, BaseLoad, InitialPods)
    /\ metrics' = << >>
    /\ logs' = << >>
    /\ tickNo' = 0
    /\ quiet' = FALSE
    /\ UNCHANGED <<timeouts, spikeNo>>

\* lines 200-203
simulateTrafficSpike ==
    /\ Render("spike", isRunning, SpikeLoad, pods)
    /\ timeouts' = Append(timeouts, spikeNo + 1)
    /\ spikeNo' = spikeNo + 1
    /\ quiet' = TRUE
    /\ UNCHANGED <<metrics, logs, tickNo>>

\* line 202: the callback of the oldest pending timeout
Revert ==
    /\ timeouts # << >>
    /\ Render("revert", isRunning, PostSpikeLoad, pods)
    /\ timeouts' = Tail(timeouts)
    /\ UNCHANGED <<metrics, logs, tickNo, spikeNo, quiet>>

\* the buttons, lines 239-258: a disabled button does not call its handler
ClickStart == ~isRunning /\ startSimulation
ClickPause == isRunning /\ stopSimulation
ClickReset == resetSimulation
ClickSpike == isRunning /\ spikeNo < MaxSpikes /\ simulateTrafficSpike
ScheduledClickSpike == isRunning /\ spikeNo < MaxHistSpikes /\ simulateTrafficSpike

\* the component in the browser
Next ==
    \/ ClickStart
    \/ ClickPause
    \/ ClickReset
    \/ ClickSpike
    \/ Revert
    \/ Tick

Spec == Init /\ [][Next]_vars

\* the browser runs the callback of a timeout that is due: a pending timeout
\* does not wait for ever
FairSpec == Spec /\ WF_vars(Revert)

\* the same with the ticks along the fixed schedule, for the long runs
HistNext ==
    \/ ClickStart
    \/ ClickPause
    \/ ClickReset
    \/ ScheduledClickSpike
    \/ Revert
    \/ ScheduledTick

HistSpec == Init /\ [][HistNext]_vars

\* the four control entry points called in any order, whatever the buttons show
ApiNext ==
    \/ startSimulation
    \/ stopSimulation
    \/ resetSimulation
    \/ (spikeNo < MaxSpikes /\ simulateTrafficSpike)
    \/ Revert
    \/ Tick

ApiSpec == Init /\ [][ApiNext]_vars

----------------------------------------------------------------------------
(* Properties *)

\* C1: after any sequence of events logs holds at most 50 entries.
C1_LogsAtMost50 == Len(logs) <= LogsKept + 1

\* C2: metrics holds at most 20 samples, and they are exactly the most recent
\* min(n, 20) samples in the order they were generated, n being the number of
\* ticks since the session started or was last reset: the i-th of them is the
\* sample of tick n - Len(metrics) + i.
C2_MetricsMostRecent20 ==
    /\ Len(metrics) = Min(tickNo, MetricsKept + 1)
    /\ \A i \in 1..Len(metrics) : metrics[i].timestamp = tickNo - Len(metrics) + i

\* C2 witness: a tick has evicted the oldest sample from a full history
C2_Witness ==
    /\ Len(metrics) = MetricsKept + 1
    /\ metrics[1].timestamp > 1
    /\ lastOp = "tick"

\* C3: whatever the state resetSimulation was called in, the state it leaves has
\* isRunning false, currentLoad 150000, pods 50 and both histories empty.
C3_ResetYieldsDefaults ==
    lastOp = "reset" =>
        /\ isRunning = FALSE
        /\ currentLoad = BaseLoad
        /\ pods = InitialPods
        /\ metrics = << >>
        /\ logs = << >>

\* C3 witness: a reset made while running, with a spike's timeout still pending
C3_Witness ==
    /\ lastOp = "reset"
    /\ wasRunning
    /\ timeouts # << >>

\* C4: stop and reset cancel every pending scheduled task, so a timeout that a
\* spike scheduled before them never changes currentLoad afterwards: the step
\* that follows a stop or a reset is never a timeout callback changing
\* currentLoad.
C4_StopResetCancelPending ==
    [][ (lastOp \in {"stop", "reset"} /\ lastOp' = "revert")
            => currentLoad' = currentLoad ]_vars

\* C5: after simulateTrafficSpike, as long as no control handler has run since
\* and the timeout that call scheduled has not fired, currentLoad is 3000000.
C5_SpikeHoldsUntilOwnRevert ==
    (quiet /\ timeouts # << >> /\ timeouts[Len(timeouts)] = spikeNo)
        => currentLoad = SpikeLoad

\* C6: a tick runs only while isRunning is true, and while it is false nothing
\* but a reset changes metrics, logs or pods; no interval is armed while
\* isRunning is false, and never more than one.
C6_TicksOnlyWhileRunning ==
    [][ /\ lastOp' = "tick" => isRunning
        /\ (~isRunning /\ lastOp' # "reset") => UNCHANGED <<metrics, logs, pods>>
        /\ ~isRunning' => intervals' = << >>
        /\ Len(intervals') <= 1 ]_vars

\* C6 witness: the simulation was paused after ticks had run, and no interval is armed
C6_Witness ==
    /\ lastOp = "stop"
    /\ wasRunning
    /\ ~isRunning
    /\ tickNo > 0
    /\ intervals = << >>

\* C7: in every sample cacheHits + cacheMisses equals the requests field, the
\* floor of the un-floored requests, and neither is negative.
C7_HitsPlusMissesIsRequests ==
    \A i \in 1..Len(metrics) :
        /\ metrics[i].cacheHits + metrics[i].cacheMisses = metrics[i].requests
        /\ metrics[i].cacheHits >= 0
        /\ metrics[i].cacheMisses >= 0

\* C7 witness: a sample whose un-floored requests was 199999.5 (the largest draw
\* at the base load), so that both floors cut something
C7_Witness ==
    \E i \in 1..Len(metrics) :
        /\ metrics[i].requests = BaseLoad + JitterRange - 1
        /\ metrics[i].cacheHits * 10000 < metrics[i].requests * HitRate(BaseLoad, cacheHitRate)

\* C8: pods, and the pods field of every sample, lie in [50, 2500], and the
\* cpuUsage field of every sample lies in [0, 95].
C8_PodsAndCpuInRange ==
    /\ pods >= MinPods /\ pods <= MaxPods
    /\ \A i \in 1..Len(metrics) :
        /\ metrics[i].pods >= MinPods /\ metrics[i].pods <= MaxPods
        /\ metrics[i].cpuUsage >= 0 /\ metrics[i].cpuUsage <= MaxCpu

\* C8 witness: samples of a tick at the base load and of a tick during a spike
C8_Witness ==
    /\ \E i \in 1..Len(metrics) : metrics[i].requests >= SpikeLoad
    /\ \E i \in 1..Len(metrics) : metrics[i].requests < BaseLoad + JitterRange
    /\ pods > InitialPods

\* C9: startSimulation called while running, and stopSimulation called while
\* not running, change nothing of the component's state and arm no interval.
C9_InvalidOrderNoOp ==
    [][ ((lastOp' = "start" /\ wasRunning') \/ (lastOp' = "stop" /\ ~wasRunning'))
            => UNCHANGED <<isRunning, currentLoad, pods, cacheHitRate, metrics, logs,
                           intervalRef, intervals, timeouts>> ]_vars

\* C9 witness: startSimulation was called while running, after ticks had run
C9_Witness ==
    /\ lastOp = "start"
    /\ wasRunning
    /\ isRunning
    /\ tickNo > 0
    /\ Len(intervals) = 1

\* the K8S scaling entries among the entries of l stamped t
ScalingEntries(l, t) ==
    SelectSeq(l, LAMBDA e : /\ e.timestamp = t
                            /\ e.component = "K8S"
                            /\ e.message.text \in {"Scaling up", "Scaling down"})

\* C10: a tick writes a K8S scaling entry exactly when the pod count it computes
\* differs from the pods value before it (left by the previous tick, or 50 after
\* the session start or a reset); the entry is INFO when the new count is the
\* greater and WARN when it is the smaller, and it records the new and the old count.
C10_ScalingLogIffPodsChanged ==
    [][ lastOp' = "tick" =>
          LET sc == ScalingEntries(logs', tickNo')
          IN  /\ Len(sc) = (IF pods' # pods THEN 1 ELSE 0)
              /\ \A k \in 1..Len(sc) :
                    /\ sc[k].level = (IF pods' > pods THEN "INFO" ELSE "WARN")
                    /\ sc[k].message.text =
                          (IF pods' > pods THEN "Scaling up" ELSE "Scaling down")
                    /\ sc[k].message.a = pods'
                    /\ sc[k].message.b = pods ]_vars

\* C10 witness: the last tick scaled down, after an earlier tick had scaled up
C10_Witness ==
    /\ lastOp = "tick"
    /\ Len(logs) > 2
    /\ logs[1].level = "WARN"
    /\ logs[1].message.text = "Scaling down"
    /\ logs[1].message.a = pods
    /\ \E k \in 2..Len(logs) : logs[k].message.text = "Scaling up"

\* C11: whenever metrics is not empty, pods equals the pods field of the most
\* recent sample.
C11_PodsIsLastSamplePods ==
    metrics # << >> => pods = metrics[Len(metrics)].pods

\* C11 witness: a tick has scaled the pods down to a count above the initial
\* one, and the simulation was then paused
C11_Witness ==
    /\ lastOp = "stop"
    /\ Len(metrics) >= 2
    /\ metrics[Len(metrics) - 1].pods > metrics[Len(metrics)].pods
    /\ pods > InitialPods

C13_CpuAlwaysAtCap ==
    [][ /\ currentLoad' >= BaseLoad
        /\ \A i \in 1..Len(metrics') :
              /\ metrics'[i].pods > MinPods - 1 /\ metrics'[i].pods < MaxPods
              /\ (metrics'[i].pods - 1) * PodCapacity <= metrics'[i].requests
              /\ metrics'[i].requests <= metrics'[i].pods * PodCapacity
              /\ metrics'[i].requests * 100 > MaxCpu * metrics'[i].pods * PodCapacity
              /\ metrics'[i].cpuUsage = MaxCpu
        /\ lastOp' = "tick" =>
              /\ logs' # logs
              /\ \E k \in 1..Len(logs') :
                    /\ logs'[k].timestamp = tickNo'
                    /\ logs'[k].level = "WARN"
                    /\ logs'[k].component = "K8S"
                    /\ logs'[k].message.text = "High CPU usage"
                    /\ logs'[k].message.a = MaxCpu ]_vars

\* C13 witness: the first tick left the pod count at 50 and wrote the
\* "High CPU usage" entry alone
C13_Witness ==
    /\ lastOp = "tick"
    /\ tickNo = 1
    /\ pods = InitialPods
    /\ Len(logs) = 1
    /\ logs[1].message.text = "High CPU usage"
    /\ metrics[1].cpuUsage = MaxCpu

\* the timeout scheduled by the k-th call of simulateTrafficSpike is pending
Pending(k) == \E n \in 1..Len(timeouts) : timeouts[n] = k

\* C14: every call of simulateTrafficSpike schedules exactly one timeout;
\* nothing but its own firing removes a pending timeout (no stop, reset or
\* further spike cancels it); when it fires it sets currentLoad to 800000 and
\* is gone; and every pending timeout eventually fires.
C14_EverySpikeRevertsOnce ==
    /\ [][ /\ lastOp' = "spike" =>
                 /\ spikeNo' = spikeNo + 1
                 /\ timeouts' = Append(timeouts, spikeNo')
           /\ lastOp' = "revert" =>
                 /\ timeouts # << >>
                 /\ timeouts' = Tail(timeouts)
                 /\ currentLoad' = PostSpikeLoad
           /\ lastOp' \notin {"spike", "revert"} => timeouts' = timeouts
           /\ \A m, n \in 1..Len(timeouts') : m < n => timeouts'[m] < timeouts'[n] ]_vars
    /\ \A k \in 1..MaxSpikes : Pending(k) ~> ~Pending(k)

\* C14 witness: the timeout of an earlier spike has fired after a later call of
\* simulateTrafficSpike, whose own timeout is still pending, and has set
\* currentLoad to 800000
C14_Witness ==
    /\ lastOp = "revert"
    /\ quiet
    /\ Pending(spikeNo)
    /\ spikeNo >= 2
    /\ currentLoad = PostSpikeLoad

\* the place of an entry in the order of the push calls of lines 115-167
PushOrder(e) ==
    IF e.message.text \in {"Scaling up", "Scaling down"} THEN 1
    ELSE IF e.message.text = "High CPU usage" THEN 2
    ELSE IF e.component = "CACHE" THEN 3
    ELSE IF e.component = "API" THEN 4
    ELSE IF e.component = "LB" THEN 5
    ELSE 6

\* C15: a tick keeps the first 49 entries of logs at most and puts between 0
\* and 6 new ones before them, in the order scaling, CPU, CACHE, API, LB,
\* INFRA; so logs never holds more than 55 entries, the entries of a later
\* tick all come before those of an earlier tick, and the entries of one tick
\* are in that order.
C15_LogsNewestFirstAtMost55 ==
    [][ /\ Len(logs') <= LogsKept + 6
        /\ \A k \in 1..(Len(logs') - 1) :
              \/ logs'[k].timestamp > logs'[k + 1].timestamp
              \/ /\ logs'[k].timestamp = logs'[k + 1].timestamp
                 /\ PushOrder(logs'[k]) < PushOrder(logs'[k + 1])
        /\ lastOp' = "tick" =>
              \E n \in 0..6 :
                 /\ Len(logs') = n + Min(Len(logs), LogsKept)
                 /\ SubSeq(logs', n + 1, Len(logs')) = SliceFirst(logs, LogsKept)
                 /\ \A k \in 1..n : logs'[k].timestamp = tickNo' ]_vars

\* C15 witness: a tick has put 6 new entries before the 49 it kept
C15_Witness ==
    /\ lastOp = "tick"
    /\ Len(logs) = LogsKept + 6
    /\ logs[6].timestamp = tickNo
    /\ logs[6].component = "INFRA"
    /\ logs[7].timestamp = tickNo - 1

====
